---- MODULE Spec2Model ----
(***************************************************************************)
(* Model of the mortgage analysis core of gold-diggers:                    *)
(*   src/mortage_analysis/mortage.py      class Mortgage                   *)
(*   src/mortage_analysis/house.py        class House                      *)
(*   src/mortage_analysis/simulations.py  class MortgageSimulator          *)
(*                                                                         *)
(* Python floats are binary floating-point numbers: every arithmetic       *)
(* operation returns the representable number nearest to the exact result  *)
(* (ties to even).  The model keeps that semantics and narrows the         *)
(* significand from 53 bits to Precision bits.  A float is a pair <<m, e>> *)
(* standing for m * 2^e, with m = 0 and e = 0 for zero and                 *)
(* 2^(Precision-1) <= |m| < 2^Precision otherwise.  The exponent is not    *)
(* bounded: the inputs of the model stay far from the overflow and         *)
(* underflow thresholds of a double.                                       *)
(***************************************************************************)
EXTENDS Integers, Sequences, FiniteSets, TLC

\* Width of the significand of a model float (53 in a Python float).
Precision == 12

\* Width used inside pow(), whose result is then rounded to Precision bits
\* (the C library computes x ** n to within about one unit in the last place).
ExtPrecision == Precision + 2

\* Number of objects the simulator's lists hold at most.
MaxItems == 1

\* Most objects in each list of the MortgageSimulator under SimulatorSpec.
MaxAdds == 2

\* Number of callers that run calls at the same time under ConcurrentSpec.
NumCallers == 2

-----------------------------------------------------------------------------
(* Floating-point arithmetic *)

Abs(n) == IF n < 0 THEN -n ELSE n

Sgn(n) == IF n < 0 THEN -1 ELSE IF n > 0 THEN 1 ELSE 0

RECURSIVE BitLen(_)
\* Number of bits of the natural number n: the least k with n < 2^k.
BitLen(n) == IF n = 0 THEN 0 ELSE 1 + BitLen(n \div 2)

Zero == <<0, 0>>

\* N / D rounded to the nearest integer, ties to even.
RoundDiv(N, D) ==
    IF 2 * (N % D) > D \/ (2 * (N % D) = D /\ (N \div D) % 2 = 1)
    THEN (N \div D) + 1
    ELSE N \div D

\* The k with 2^k <= n/d < 2^(k+1), given that it is k0 or k0 - 1.
Log2From(n, d, k0) ==
    IF (IF k0 >= 0 THEN n >= d * 2^k0 ELSE n * 2^(-k0) >= d) THEN k0 ELSE k0 - 1

Log2Floor(n, d) == Log2From(n, d, BitLen(n) - BitLen(d))

\* A rounded significand q that reached 2^p is 2^(p-1) one exponent higher.
Normal(q, e, p) == IF q = 2^p THEN <<2^(p - 1), e + 1>> ELSE <<q, e>>

\* (n / d) * 2^e rounded after scaling n/d by 2^s into [2^(p-1), 2^p).
Scaled(n, d, e, p, s) ==
    IF s >= 0 THEN Normal(RoundDiv(n * 2^s, d), e - s, p)
    ELSE Normal(RoundDiv(n, d * 2^(-s)), e - s, p)

\* The p-bit float nearest to (n / d) * 2^e, for integers n >= 0 and d > 0.
RndPos(n, d, e, p) ==
    IF n = 0 THEN Zero ELSE Scaled(n, d, e, p, p - 1 - Log2Floor(n, d))

Signed(sign, r) == <<sign * r[1], r[2]>>

\* The p-bit float nearest to (n / d) * 2^e, for integers n and d > 0.
Rnd(n, d, e, p) == Signed(Sgn(n), RndPos(Abs(n), d, e, p))

FNeg(a) == <<-a[1], a[2]>>

FAbs(a) == <<Abs(a[1]), a[2]>>

FMulP(a, b, p) == Rnd(a[1] * b[1], 1, a[2] + b[2], p)

\* b is not zero.
FDivP(a, b, p) == Rnd(Sgn(b[1]) * a[1], Abs(b[1]), a[2] - b[2], p)

\* hi + lo for hi[2] >= lo[2], neither zero.  When the exponents differ by
\* more than p + 1, lo is below a quarter of the last place of hi and the
\* sum rounds to hi.
Aligned(hi, lo, p) ==
    IF hi[2] - lo[2] > p + 1 THEN hi
    ELSE Rnd(hi[1] * 2^(hi[2] - lo[2]) + lo[1], 1, lo[2], p)

FAddP(a, b, p) ==
    IF a[1] = 0 THEN b
    ELSE IF b[1] = 0 THEN a
    ELSE IF a[2] >= b[2] THEN Aligned(a, b, p)
    ELSE Aligned(b, a, p)

FMul(a, b) == FMulP(a, b, Precision)
FDiv(a, b) == FDivP(a, b, Precision)
FAdd(a, b) == FAddP(a, b, Precision)
FSub(a, b) == FAddP(a, FNeg(b), Precision)

\* Comparisons are exact: the sign of a rounded difference is the sign of
\* the exact difference.
FLt(a, b) == FSub(a, b)[1] < 0
FGt(a, b) == FLt(b, a)

\* float(n) for an integer n, and the float literal n/d.
FromInt(n) == Rnd(n, 1, 0, Precision)
FromRat(n, d) == Rnd(n, d, 0, Precision)

\* h^2, or h^2 * x for an odd n, each product rounded to ExtPrecision bits.
PowStep(h, x, n) ==
    IF n % 2 = 1
    THEN FMulP(FMulP(h, h, ExtPrecision), x, ExtPrecision)
    ELSE FMulP(h, h, ExtPrecision)

RECURSIVE PowExt(_, _)
\* x^n for n >= 0 by squaring.
PowExt(x, n) ==
    IF n = 0 THEN Rnd(1, 1, 0, ExtPrecision)
    ELSE PowStep(PowExt(x, n \div 2), x, n)

Narrow(r) == Rnd(r[1], 1, r[2], Precision)

\* x ** n for a float x other than zero and an integer n.
FPow(x, n) ==
    IF n >= 0 THEN Narrow(PowExt(x, n))
    ELSE Narrow(FDivP(Rnd(1, 1, 0, ExtPrecision), PowExt(x, -n), ExtPrecision))

\* round(x, 2): x rounded to the nearest hundredth (ties to even, decided on
\* the exact value of x), then to the nearest float.  A float that is an
\* integer is returned as it is, and one below 2^-9 rounds to zero.
Round2(x) ==
    IF x[2] >= 0 THEN x
    ELSE IF -x[2] > Precision + 8 THEN Zero
    ELSE Rnd(Sgn(x[1]) * RoundDiv(Abs(x[1]) * 100, 2^(-x[2])), 100, 0, Precision)

-----------------------------------------------------------------------------
(* Outcomes of a call *)

Return(v) == [kind |-> "return", value |-> v]

Raise(e) == [kind |-> "raise", value |-> e]

\* The absent object (a name not bound yet).
None == [kind |-> "None"]

\* a / b: a division by zero raises ZeroDivisionError.
Divide(a, b) ==
    IF b = Zero THEN Raise("ZeroDivisionError") ELSE Return(FDiv(a, b))

-----------------------------------------------------------------------------
(* class Mortgage *)

\* Mortgage.__init__: stores its arguments and the two derived fields.
\* No argument is validated.
Mortgage(capital, interest_rate, term_years) ==
    [capital          |-> capital,
     interest_rate    |-> interest_rate,
     term_years       |-> term_years,
     term_months      |-> term_years * 12,
     monthly_interest |-> FDiv(interest_rate, FromInt(12 * 100))]

\* numerator / denominator of calculate_monthly_payment, given
\* power = (1 + monthly_interest) ** term_months.
AnnuityPayment(self, power) ==
    Divide(FMul(FMul(self.capital, self.monthly_interest), power),
           FSub(power, FromInt(1)))

\* calculate_monthly_payment without the branch on monthly_interest == 0.
AnnuityAtAnyRate(self) ==
    AnnuityPayment(self, FPow(FAdd(FromInt(1), self.monthly_interest), self.term_months))

\* Mortgage.calculate_monthly_payment.  (1 + monthly_interest is zero only
\* for interest_rate = -1200, which no run uses.)
calculate_monthly_payment(self) ==
    IF self.monthly_interest = Zero
    THEN Divide(self.capital, FromInt(self.term_months))
    ELSE AnnuityPayment(self, FPow(FAdd(FromInt(1), self.monthly_interest),
                                   self.term_months))

TimesMonths(self, payment) ==
    IF payment.kind = "raise" THEN payment
    ELSE Return(FMul(payment.value, FromInt(self.term_months)))

\* Mortgage.calculate_total_payment.
calculate_total_payment(self) ==
    TimesMonths(self, calculate_monthly_payment(self))

\* max(remaining_balance, 0)
Max0(x) == IF x[1] < 0 THEN Zero ELSE x

\* The dictionary appended to the schedule.
ScheduleRecord(month, monthly_payment, interest_payment, principal_payment, remaining_balance) ==
    [Mes               |-> month,
     Cuota             |-> Round2(monthly_payment),
     Interes           |-> Round2(interest_payment),
     CapitalAmortizado |-> Round2(principal_payment),
     SaldoPendiente    |-> Round2(remaining_balance)]

RECURSIVE ScheduleLoop(_, _, _, _, _)

\* The append, and the break when the running balance is 0.
AfterBalance(self, monthly_payment, month, schedule, interest_payment, principal_payment, remaining_balance) ==
    IF remaining_balance = Zero
    THEN Append(schedule,
                ScheduleRecord(month, monthly_payment, interest_payment,
                               principal_payment, remaining_balance))
    ELSE ScheduleLoop(self, monthly_payment, month + 1, remaining_balance,
                      Append(schedule,
                             ScheduleRecord(month, monthly_payment,
                                            interest_payment, principal_payment,
                                            remaining_balance)))

\* remaining_balance -= principal_payment, then the clamp at 0.
AfterPrincipal(self, monthly_payment, month, remaining_balance, schedule, interest_payment, principal_payment) ==
    AfterBalance(self, monthly_payment, month, schedule, interest_payment,
                 principal_payment,
                 Max0(FSub(remaining_balance, principal_payment)))

\* principal_payment = monthly_payment - interest_payment
AfterInterest(self, monthly_payment, month, remaining_balance, schedule, interest_payment) ==
    AfterPrincipal(self, monthly_payment, month, remaining_balance, schedule,
                   interest_payment, FSub(monthly_payment, interest_payment))

\* The loop of generate_amortization_schedule from month `month` on, entered
\* with the running balance remaining_balance and the records made so far.
ScheduleLoop(self, monthly_payment, month, remaining_balance, schedule) ==
    IF month > self.term_months THEN schedule
    ELSE AfterInterest(self, monthly_payment, month, remaining_balance, schedule,
                       FMul(remaining_balance, self.monthly_interest))

ScheduleFrom(self, payment) ==
    IF payment.kind = "raise" THEN payment
    ELSE Return(ScheduleLoop(self, payment.value, 1, self.capital, <<>>))

\* Mortgage.generate_amortization_schedule.
generate_amortization_schedule(self) ==
    ScheduleFrom(self, calculate_monthly_payment(self))

-----------------------------------------------------------------------------
(* class House *)

\* House.__init__: stores the Mortgage it is given and the five costs.
House(mortgage, property_tax, home_insurance, maintenance_cost, community_fees, utilities) ==
    [mortgage         |-> mortgage,
     property_tax     |-> property_tax,
     home_insurance   |-> home_insurance,
     maintenance_cost |-> maintenance_cost,
     community_fees   |-> community_fees,
     utilities        |-> utilities]

monthly_property_tax(self) == FDiv(self.property_tax, FromInt(12))

monthly_home_insurance(self) == FDiv(self.home_insurance, FromInt(12))

monthly_maintenance_cost(self) == FDiv(self.maintenance_cost, FromInt(12))

\* CostSum with community_fees and utilities taken as yearly figures.
CostSumYearlyFees(self, payment) ==
    IF payment.kind = "raise" THEN payment
    ELSE Return(FAdd(FAdd(FAdd(FAdd(FAdd(payment.value,
                                         monthly_property_tax(self)),
                                    monthly_home_insurance(self)),
                               monthly_maintenance_cost(self)),
                          FDiv(self.community_fees, FromInt(12))),
                     FDiv(self.utilities, FromInt(12))))

\* The sum of total_monthly_cost, its six terms added from left to right.
CostSum(self, payment) ==
    IF payment.kind = "raise" THEN payment
    ELSE Return(FAdd(FAdd(FAdd(FAdd(FAdd(payment.value,
                                         monthly_property_tax(self)),
                                    monthly_home_insurance(self)),
                               monthly_maintenance_cost(self)),
                          self.community_fees),
                     self.utilities))

\* House.total_monthly_cost.
total_monthly_cost(self) ==
    CostSum(self, calculate_monthly_payment(self.mortgage))

\* DetailedRecord with the yearly maintenance cost in the month's total.
DetailedRecordYearlyMaintenance(self, payment) ==
    [Mes               |-> payment.Mes,
     Cuota             |-> Round2(payment.Cuota),
     Interes           |-> Round2(payment.Interes),
     CapitalAmortizado |-> Round2(payment.CapitalAmortizado),
     SaldoPendiente    |-> Round2(payment.SaldoPendiente),
     ImpuestoPropiedad |-> Round2(monthly_property_tax(self)),
     SeguroHogar       |-> Round2(monthly_home_insurance(self)),
     Mantenimiento     |-> Round2(monthly_maintenance_cost(self)),
     GastosComunidad   |-> Round2(self.community_fees),
     Utilities         |-> Round2(self.utilities),
     CostoTotalMes     |->
         Round2(FAdd(FAdd(FAdd(FAdd(FAdd(payment.Cuota,
                                         monthly_property_tax(self)),
                                    monthly_home_insurance(self)),
                               self.maintenance_cost),
                          self.community_fees),
                     self.utilities))]

\* The dictionary generate_detailed_schedule appends for one record of the
\* amortization schedule; total_cost is added from left to right.
DetailedRecord(self, payment) ==
    [Mes               |-> payment.Mes,
     Cuota             |-> Round2(payment.Cuota),
     Interes           |-> Round2(payment.Interes),
     CapitalAmortizado |-> Round2(payment.CapitalAmortizado),
     SaldoPendiente    |-> Round2(payment.SaldoPendiente),
     ImpuestoPropiedad |-> Round2(monthly_property_tax(self)),
     SeguroHogar       |-> Round2(monthly_home_insurance(self)),
     Mantenimiento     |-> Round2(monthly_maintenance_cost(self)),
     GastosComunidad   |-> Round2(self.community_fees),
     Utilities         |-> Round2(self.utilities),
     CostoTotalMes     |->
         Round2(FAdd(FAdd(FAdd(FAdd(FAdd(payment.Cuota,
                                         monthly_property_tax(self)),
                                    monthly_home_insurance(self)),
                               monthly_maintenance_cost(self)),
                          self.community_fees),
                     self.utilities))]

RECURSIVE DetailedLoop(_, _, _, _)
\* The loop of generate_detailed_schedule from the i-th record of the
\* amortization schedule on, with its break on a Saldo Pendiente of 0.
DetailedLoop(self, amortization_schedule, i, detailed_schedule) ==
    IF i > Len(amortization_schedule) THEN detailed_schedule
    ELSE IF amortization_schedule[i].SaldoPendiente = Zero
    THEN Append(detailed_schedule, DetailedRecord(self, amortization_schedule[i]))
    ELSE DetailedLoop(self, amortization_schedule, i + 1,
                      Append(detailed_schedule,
                             DetailedRecord(self, amortization_schedule[i])))

DetailedFrom(self, amortization_schedule) ==
    IF amortization_schedule.kind = "raise" THEN amortization_schedule
    ELSE Return(DetailedLoop(self, amortization_schedule.value, 1, <<>>))

\* House.generate_detailed_schedule.
generate_detailed_schedule(self) ==
    DetailedFrom(self, generate_amortization_schedule(self.mortgage))

-----------------------------------------------------------------------------
(* Inputs *)

\* Arguments of Mortgage(...): the ones the documentation allows, and ones
\* with a single argument out of its range.
ValidLoanInputs ==
    {FromRat(1, 32), FromInt(10), FromInt(1000)}
        \X {FromInt(0), FromInt(6), FromInt(100)} \X {1, 2}

InvalidLoanInputs ==
    {<<FromInt(0), FromInt(6), 1>>, <<FromInt(-1), FromInt(6), 1>>,
     <<FromInt(10), FromInt(-6), 1>>, <<FromInt(10), FromInt(6), 0>>,
     <<FromInt(10), FromInt(0), 0>>, <<FromInt(10), FromInt(6), -1>>}

\* Arguments the documentation allows, with a rate above 1200.
SteepLoanInputs == {<<FromInt(10), FromInt(3000), 2>>}

LoanInputs == ValidLoanInputs \cup SteepLoanInputs \cup InvalidLoanInputs

\* Arguments of House(mortgage, ...): property_tax, home_insurance,
\* maintenance_cost, community_fees, utilities.
HouseInputs ==
    {<<FromInt(12), FromInt(6), FromInt(3), FromInt(1), FromInt(2)>>,
     <<FromInt(0), FromInt(0), FromInt(0), FromInt(0), FromInt(0)>>}

-----------------------------------------------------------------------------
(* MortgageSimulator.calculate_required_interest: constants *)

\* tolerance = 1e-6, the float nearest to 2^-20 * (2^20 / 10^6).
tolerance == Rnd(16384, 15625, -20, Precision)

max_iterations == 1000

\* Arguments of the runs of SolverSpec.
SolverLoanInputs == {<<FromInt(10), FromInt(6), 1>>}

SolverHouseInputs ==
    {<<FromInt(12), FromInt(6), FromInt(3), FromInt(1), FromInt(2)>>}

\* The payment of Mortgage(capital, rate0, term_years), as a target.
PaymentAt(capital, rate0, term_years) ==
    calculate_monthly_payment(Mortgage(capital, rate0, term_years)).value

\* Rates whose payment is given to the solver as its target.
RoundTripRates == {FromInt(6), FromInt(25), FromInt(50)}

\* Arguments of calculate_required_interest: capital, term_years,
\* max_monthly_payment.  Payments of known rates, a payment below the one at
\* rate 0 and a payment above the one at rate 100.
SolverInputs ==
    {<<FromInt(1000), 1, PaymentAt(FromInt(1000), FromInt(50), 1)>>,
     <<FromInt(1000), 1, PaymentAt(FromInt(1000), FromInt(25), 1)>>,
     <<Rnd(1, 1, -20, Precision), 1,
       PaymentAt(Rnd(1, 1, -20, Precision), FromInt(6), 1)>>,
     <<FromInt(1000), 1, FromInt(1)>>,
     <<FromInt(1000), 1, FromInt(10000)>>}

-----------------------------------------------------------------------------
(* State *)

VARIABLES
    loan,         \* the Mortgage object of the run, None before it is made
    house,        \* the House object that owns loan, None before it is made
    mortgages,    \* MortgageSimulator.mortgages
    houses,       \* MortgageSimulator.houses
    out,          \* the last call and how it ended
    pc,           \* "idle", or "loop" inside calculate_required_interest
    args,         \* arguments of the last call of calculate_required_interest
    lower_bound,  \* its local lower_bound
    upper_bound,  \* its local upper_bound
    iterations,   \* its local iterations
    first,        \* history: the first call of calculate_required_interest
                  \* that ended while both lists were empty
    frames        \* the locals of each caller that runs a call of its own

objects == <<loan, house, mortgages, houses>>
locals == <<args, lower_bound, upper_bound, iterations>>
vars == <<loan, house, mortgages, houses, out, pc, args, lower_bound,
          upper_bound, iterations, first, frames>>

\* Callers that run their calls at the same time.
Callers == 1..NumCallers

\* The frame of a caller that is in no call.
IdleFrame == [pc |-> "idle"]

NoCalls == [c \in Callers |-> IdleFrame]

Call(op, outcome) == [op |-> op, kind |-> outcome.kind, value |-> outcome.value]

Running == [kind |-> "running", value |-> "None"]

Init ==
    /\ loan = None
    /\ house = None
    /\ mortgages = <<>>
    /\ houses = <<>>
    /\ out = Call("MortgageSimulator", Return("simulator"))
    /\ pc = "idle"
    /\ args = None
    /\ lower_bound = None
    /\ upper_bound = None
    /\ iterations = 0
    /\ first = None
    /\ frames = NoCalls

\* mortgage = Mortgage(capital, interest_rate, term_years)
NewMortgage(capital, interest_rate, term_years) ==
    /\ pc = "idle"
    /\ loan = None
    /\ loan' = Mortgage(capital, interest_rate, term_years)
    /\ out' = Call("Mortgage", Return("mortgage"))
    /\ UNCHANGED <<house, mortgages, houses, pc, locals, first, frames>>

\* house = House(mortgage, ...)
NewHouse(costs) ==
    /\ pc = "idle"
    /\ loan # None
    /\ house = None
    /\ house' = House(loan, costs[1], costs[2], costs[3], costs[4], costs[5])
    /\ out' = Call("House", Return("house"))
    /\ UNCHANGED <<loan, mortgages, houses, pc, locals, first, frames>>

CalculateMonthlyPayment ==
    /\ pc = "idle"
    /\ loan # None
    /\ out' = Call("calculate_monthly_payment", calculate_monthly_payment(loan))
    /\ UNCHANGED <<objects, pc, locals, first, frames>>

CalculateTotalPayment ==
    /\ pc = "idle"
    /\ loan # None
    /\ out' = Call("calculate_total_payment", calculate_total_payment(loan))
    /\ UNCHANGED <<objects, pc, locals, first, frames>>

\* GenerateAmortizationSchedule with self.capital as the running balance.
GenerateAmortizationScheduleInPlace ==
    /\ pc = "idle"
    /\ loan # None
    /\ out' = Call("generate_amortization_schedule",
                   generate_amortization_schedule(loan))
    /\ loan' = [loan EXCEPT !.capital = Zero]
    /\ UNCHANGED <<house, mortgages, houses, pc, locals, first, frames>>

GenerateAmortizationSchedule ==
    /\ pc = "idle"
    /\ loan # None
    /\ out' = Call("generate_amortization_schedule",
                   generate_amortization_schedule(loan))
    /\ UNCHANGED <<objects, pc, locals, first, frames>>

TotalMonthlyCost ==
    /\ pc = "idle"
    /\ house # None
    /\ out' = Call("total_monthly_cost", total_monthly_cost(house))
    /\ UNCHANGED <<objects, pc, locals, first, frames>>

GenerateDetailedSchedule ==
    /\ pc = "idle"
    /\ house # None
    /\ out' = Call("generate_detailed_schedule", generate_detailed_schedule(house))
    /\ UNCHANGED <<objects, pc, locals, first, frames>>

\* add_mortgage putting the new Mortgage first.
PrependMortgage(limit) ==
    /\ pc = "idle"
    /\ loan # None
    /\ Len(mortgages) < limit
    /\ mortgages' = <<loan>> \o mortgages
    /\ out' = Call("add_mortgage", Return("None"))
    /\ UNCHANGED <<loan, house, houses, pc, locals, first, frames>>

\* self.mortgages.append(mortgage), for a list of fewer than limit objects.
AppendMortgage(limit) ==
    /\ pc = "idle"
    /\ loan # None
    /\ Len(mortgages) < limit
    /\ mortgages' = Append(mortgages, loan)
    /\ out' = Call("add_mortgage", Return("None"))
    /\ UNCHANGED <<loan, house, houses, pc, locals, first, frames>>

\* self.houses.append(house), for a list of fewer than limit objects.
AppendHouse(limit) ==
    /\ pc = "idle"
    /\ house # None
    /\ Len(houses) < limit
    /\ houses' = Append(houses, house)
    /\ out' = Call("add_house", Return("None"))
    /\ UNCHANGED <<loan, house, mortgages, pc, locals, first, frames>>

\* MortgageSimulator.add_mortgage
AddMortgage == AppendMortgage(MaxItems)

\* MortgageSimulator.add_house
AddHouse == AppendHouse(MaxItems)

\* The lines compare_mortgages prints: for each Mortgage of the list its
\* monthly payment and its total payment; the first call that raises ends it.
RECURSIVE MortgageLines(_, _, _)

MortgageLines(list, i, lines) ==
    IF i > Len(list) THEN Return(lines)
    ELSE IF calculate_monthly_payment(list[i]).kind = "raise"
         THEN calculate_monthly_payment(list[i])
         ELSE MortgageLines(list, i + 1,
                  Append(lines, <<calculate_monthly_payment(list[i]).value,
                                  calculate_total_payment(list[i]).value>>))

\* The lines compare_houses prints: for each House its total monthly cost.
RECURSIVE HouseLines(_, _, _)

HouseLines(list, i, lines) ==
    IF i > Len(list) THEN Return(lines)
    ELSE IF total_monthly_cost(list[i]).kind = "raise"
         THEN total_monthly_cost(list[i])
         ELSE HouseLines(list, i + 1,
                  Append(lines, total_monthly_cost(list[i]).value))

\* MortgageSimulator.compare_mortgages
CompareMortgages ==
    /\ pc = "idle"
    /\ out' = Call("compare_mortgages", MortgageLines(mortgages, 1, <<>>))
    /\ UNCHANGED <<objects, pc, locals, first, frames>>

\* MortgageSimulator.compare_houses
CompareHouses ==
    /\ pc = "idle"
    /\ out' = Call("compare_houses", HouseLines(houses, 1, <<>>))
    /\ UNCHANGED <<objects, pc, locals, first, frames>>

\* The loop of main: mortgage is bound to a new Mortgage.
NextMortgage(capital, interest_rate, term_years) ==
    /\ pc = "idle"
    /\ loan' = Mortgage(capital, interest_rate, term_years)
    /\ loan' # loan
    /\ out' = Call("Mortgage", Return("mortgage"))
    /\ UNCHANGED <<house, mortgages, houses, pc, locals, first, frames>>

\* The loop of main: house is bound to a new House of the current Mortgage.
NextHouse(costs) ==
    /\ pc = "idle"
    /\ loan # None
    /\ house' = House(loan, costs[1], costs[2], costs[3], costs[4], costs[5])
    /\ house' # house
    /\ out' = Call("House", Return("house"))
    /\ UNCHANGED <<loan, mortgages, houses, pc, locals, first, frames>>

AddMortgageInOrder == AppendMortgage(MaxAdds)

AddHouseInOrder == AppendHouse(MaxAdds)

-----------------------------------------------------------------------------
(* MortgageSimulator.calculate_required_interest *)

\* The call, up to the first test of the while loop.
CallRequiredInterest(capital, term_years, max_monthly_payment) ==
    /\ pc = "idle"
    /\ pc' = "loop"
    /\ args' = [capital |-> capital, term_years |-> term_years,
                max_monthly_payment |-> max_monthly_payment]
    /\ lower_bound' = FromInt(0)
    /\ upper_bound' = FromInt(100)
    /\ iterations' = 0
    /\ out' = Call("calculate_required_interest", Running)
    /\ UNCHANGED <<objects, first, frames>>

\* The call ends: a return or a raise leaves the loop and the function.
Finish(outcome) ==
    /\ pc' = "idle"
    /\ out' = Call("calculate_required_interest", outcome)
    /\ first' = IF first = None /\ mortgages = <<>> /\ houses = <<>>
                THEN [args |-> args, kind |-> outcome.kind, value |-> outcome.value]
                ELSE first
    /\ UNCHANGED <<objects, locals, frames>>

mid_rate == FDiv(FAdd(lower_bound, upper_bound), FromInt(2))

\* Converged without the abs().
ConvergedSigned(payment) ==
    FLt(FSub(payment, args.max_monthly_payment), tolerance)

\* abs(payment - max_monthly_payment) < tolerance
Converged(payment) ==
    FLt(FAbs(FSub(payment, args.max_monthly_payment)), tolerance)

\* The body of the while loop, given the outcome of
\* Mortgage(capital, mid_rate, term_years).calculate_monthly_payment().
LoopBody(payment) ==
    IF payment.kind = "raise" THEN Finish(payment)
    ELSE IF Converged(payment.value) THEN Finish(Return(mid_rate))
    ELSE /\ IF FGt(payment.value, args.max_monthly_payment)
            THEN upper_bound' = mid_rate /\ lower_bound' = lower_bound
            ELSE lower_bound' = mid_rate /\ upper_bound' = upper_bound
         /\ iterations' = iterations + 1
         /\ UNCHANGED <<objects, out, pc, args, first, frames>>

\* LoopIteration keeping each trial Mortgage in self.mortgages.
LoopIterationKeepsTrial ==
    /\ pc = "loop"
    /\ iterations < max_iterations
    /\ mortgages' = <<Mortgage(args.capital, mid_rate, args.term_years)>>
    /\ iterations' = iterations + 1
    /\ UNCHANGED <<loan, house, houses, out, pc, args, lower_bound,
                   upper_bound, first, frames>>

\* One pass through the while loop.
LoopIteration ==
    /\ pc = "loop"
    /\ iterations < max_iterations
    /\ LoopBody(calculate_monthly_payment(
                    Mortgage(args.capital, mid_rate, args.term_years)))

\* The while test fails: raise ValueError.
LoopExhausted ==
    /\ pc = "loop"
    /\ ~(iterations < max_iterations)
    /\ Finish(Raise("ValueError"))

-----------------------------------------------------------------------------
(* Specifications *)

\* The operations of Mortgage and House and the simulator's lists.
Operations ==
    \/ CalculateMonthlyPayment
    \/ CalculateTotalPayment
    \/ GenerateAmortizationSchedule
    \/ TotalMonthlyCost
    \/ GenerateDetailedSchedule
    \/ AddMortgage
    \/ AddHouse

\* Objects made from any arguments, and every operation on them.
Next ==
    \/ \E i \in LoanInputs : NewMortgage(i[1], i[2], i[3])
    \/ \E c \in HouseInputs : NewHouse(c)
    \/ Operations

Spec == Init /\ [][Next]_vars

\* A Mortgage and the House that owns it, made already; the simulator's
\* lists are empty.
SolverInit ==
    /\ loan \in {Mortgage(i[1], i[2], i[3]) : i \in SolverLoanInputs}
    /\ house \in {House(loan, c[1], c[2], c[3], c[4], c[5]) : c \in SolverHouseInputs}
    /\ mortgages = <<>>
    /\ houses = <<>>
    /\ out = Call("House", Return("house"))
    /\ pc = "idle"
    /\ args = None
    /\ lower_bound = None
    /\ upper_bound = None
    /\ iterations = 0
    /\ first = None
    /\ frames = NoCalls

\* Every operation on the two objects, and the solver.
SolverNext ==
    \/ Operations
    \/ \E a \in SolverInputs : CallRequiredInterest(a[1], a[2], a[3])
    \/ LoopIteration
    \/ LoopExhausted

SolverSpec == SolverInit /\ [][SolverNext]_vars

\* Arguments of the Mortgages and Houses that main makes one after another.
SimulatorLoanInputs ==
    {<<FromInt(10), FromInt(6), 1>>, <<FromInt(1000), FromInt(0), 1>>}

SimulatorHouseInputs ==
    {<<FromInt(12), FromInt(6), FromInt(3), FromInt(1), FromInt(2)>>}

\* Arguments of a call of calculate_required_interest that returns.
SimulatorSolverInputs ==
    {<<FromInt(1000), 1, PaymentAt(FromInt(1000), FromInt(25), 1)>>}

\* The simulator of main: objects made one after another and added to the
\* lists, the comparisons, and the solver.
SimulatorNext ==
    \/ \E i \in SimulatorLoanInputs : NextMortgage(i[1], i[2], i[3])
    \/ \E c \in SimulatorHouseInputs : NextHouse(c)
    \/ AddMortgageInOrder
    \/ AddHouseInOrder
    \/ CompareMortgages
    \/ CompareHouses
    \/ \E a \in SimulatorSolverInputs : CallRequiredInterest(a[1], a[2], a[3])
    \/ LoopIteration

SimulatorSpec == Init /\ [][SimulatorNext]_vars

-----------------------------------------------------------------------------
(* Calls that run at the same time *)

\* A caller's call has ended with the given outcome.
Done(f, outcome) == [pc |-> "done", op |-> f.op, input |-> f.input, result |-> outcome]

\* The balance after one pass through the loop of
\* generate_amortization_schedule.
BalanceAfter(self, monthly_payment, remaining_balance) ==
    Max0(FSub(remaining_balance, FSub(monthly_payment, FMul(remaining_balance, self.monthly_interest))))

\* The record that pass appends.
RecordOf(self, monthly_payment, month, remaining_balance) ==
    ScheduleRecord(month, monthly_payment,
                   FMul(remaining_balance, self.monthly_interest),
                   FSub(monthly_payment, FMul(remaining_balance, self.monthly_interest)),
                   BalanceAfter(self, monthly_payment, remaining_balance))

\* The frame of generate_amortization_schedule when its loop is entered;
\* op is the call of the caller, which is this one or the
\* generate_detailed_schedule that made it.
ScheduleEntered(op, self, payment) ==
    IF payment.kind = "raise"
    THEN Done([op |-> op, input |-> "None"], payment)
    ELSE [pc |-> "schedule", op |-> op, input |-> "None", self |-> self,
          monthly_payment |-> payment.value, month |-> 1,
          remaining_balance |-> self.capital, schedule |-> <<>>]

\* The frame when generate_amortization_schedule returns schedule: the
\* caller has its result, or generate_detailed_schedule enters its loop.
ScheduleReturned(f, schedule) ==
    IF f.op = "generate_detailed_schedule"
    THEN [pc |-> "detail", op |-> f.op, input |-> f.input,
          amortization_schedule |-> schedule]
    ELSE Done(f, Return(schedule))

\* One pass through the loop of generate_amortization_schedule, or its end.
ScheduleStepped(f) ==
    IF f.month > f.self.term_months THEN ScheduleReturned(f, f.schedule)
    ELSE IF BalanceAfter(f.self, f.monthly_payment, f.remaining_balance) = Zero
    THEN ScheduleReturned(f, Append(f.schedule, RecordOf(f.self, f.monthly_payment, f.month, f.remaining_balance)))
    ELSE [f EXCEPT !.month = f.month + 1,
                   !.remaining_balance = BalanceAfter(f.self, f.monthly_payment, f.remaining_balance),
                   !.schedule = Append(f.schedule, RecordOf(f.self, f.monthly_payment, f.month, f.remaining_balance))]

\* The loop of generate_detailed_schedule over the list that
\* generate_amortization_schedule returned to this caller.
DetailStepped(f) ==
    Done(f, Return(DetailedLoop(house, f.amortization_schedule, 1, <<>>)))

\* The frame of calculate_required_interest when its loop is entered.
SolveEntered(a) ==
    [pc |-> "solve", op |-> "calculate_required_interest",
     input |-> [capital |-> a[1], term_years |-> a[2], max_monthly_payment |-> a[3]],
     lower_bound |-> FromInt(0), upper_bound |-> FromInt(100), iterations |-> 0]

\* (lower_bound + upper_bound) / 2
MidRate(f) == FDiv(FAdd(f.lower_bound, f.upper_bound), FromInt(2))

\* The body of the while loop of calculate_required_interest on the locals
\* of the frame, given the outcome of calculate_monthly_payment.
SolveBody(f, payment) ==
    IF payment.kind = "raise" THEN Done(f, payment)
    ELSE IF FLt(FAbs(FSub(payment.value, f.input.max_monthly_payment)), tolerance)
    THEN Done(f, Return(MidRate(f)))
    ELSE IF FGt(payment.value, f.input.max_monthly_payment)
    THEN [f EXCEPT !.upper_bound = MidRate(f), !.iterations = f.iterations + 1]
    ELSE [f EXCEPT !.lower_bound = MidRate(f), !.iterations = f.iterations + 1]

\* One pass through the while loop, or the raise after it.
SolveStepped(f) ==
    IF ~(f.iterations < max_iterations) THEN Done(f, Raise("ValueError"))
    ELSE SolveBody(f, calculate_monthly_payment(Mortgage(f.input.capital, MidRate(f), f.input.term_years)))

\* Caller c calls loan.generate_amortization_schedule().
ScheduleCall(c) ==
    /\ frames[c].pc = "idle"
    /\ loan # None
    /\ frames' = [frames EXCEPT ![c] = ScheduleEntered("generate_amortization_schedule", loan, calculate_monthly_payment(loan))]
    /\ UNCHANGED <<objects, out, pc, locals, first>>

\* Caller c calls house.generate_detailed_schedule(), which calls
\* self.mortgage.generate_amortization_schedule().
DetailCall(c) ==
    /\ frames[c].pc = "idle"
    /\ house # None
    /\ frames' = [frames EXCEPT ![c] = ScheduleEntered("generate_detailed_schedule", house.mortgage, calculate_monthly_payment(house.mortgage))]
    /\ UNCHANGED <<objects, out, pc, locals, first>>

\* Caller c calls simulator.calculate_required_interest(...).
SolveCall(c, a) ==
    /\ frames[c].pc = "idle"
    /\ frames' = [frames EXCEPT ![c] = SolveEntered(a)]
    /\ UNCHANGED <<objects, out, pc, locals, first>>

\* ScheduleStep with the running balance kept in one place for all callers.
ScheduleStepShared(c) ==
    /\ frames[c].pc = "schedule"
    /\ frames' = [d \in Callers |->
                    IF d = c THEN ScheduleStepped(frames[c])
                    ELSE IF frames[d].pc = "schedule" /\ ScheduleStepped(frames[c]).pc = "schedule"
                    THEN [frames[d] EXCEPT !.remaining_balance = ScheduleStepped(frames[c]).remaining_balance]
                    ELSE frames[d]]
    /\ UNCHANGED <<objects, out, pc, locals, first>>

\* Caller c runs one pass of the loop of generate_amortization_schedule.
ScheduleStep(c) ==
    /\ frames[c].pc = "schedule"
    /\ frames' = [frames EXCEPT ![c] = ScheduleStepped(frames[c])]
    /\ UNCHANGED <<objects, out, pc, locals, first>>

\* Caller c runs the loop of generate_detailed_schedule.
DetailStep(c) ==
    /\ frames[c].pc = "detail"
    /\ frames' = [frames EXCEPT ![c] = DetailStepped(frames[c])]
    /\ UNCHANGED <<objects, out, pc, locals, first>>

\* Caller c runs one pass of the loop of calculate_required_interest.
SolveStep(c) ==
    /\ frames[c].pc = "solve"
    /\ frames' = [frames EXCEPT ![c] = SolveStepped(frames[c])]
    /\ UNCHANGED <<objects, out, pc, locals, first>>

\* Arguments of the calls of calculate_required_interest that run at the
\* same time.
ConcurrentSolverInputs ==
    {<<FromInt(1000), 1, PaymentAt(FromInt(1000), FromInt(25), 1)>>}

\* The callers share one Mortgage, one House and one MortgageSimulator, and
\* their steps interleave in any order.
ConcurrentNext ==
    \E c \in Callers :
        \/ ScheduleCall(c)
        \/ DetailCall(c)
        \/ \E a \in ConcurrentSolverInputs : SolveCall(c, a)
        \/ ScheduleStep(c)
        \/ DetailStep(c)
        \/ SolveStep(c)

ConcurrentSpec == SolverInit /\ [][ConcurrentNext]_vars

-----------------------------------------------------------------------------
(* Properties *)

\* The arguments the documentation of Mortgage allows.
ValidLoan(l) ==
    l.capital[1] > 0 /\ l.interest_rate[1] >= 0 /\ l.term_years > 0

\* C1: for a Mortgage with positive capital, non-negative rate and positive
\* term, generate_amortization_schedule returns at most term_months records
\* and the Saldo Pendiente of the last one is exactly 0.
C1_ScheduleEndsAtZero ==
    (out.op = "generate_amortization_schedule" /\ ValidLoan(loan)) =>
        /\ out.kind = "return"
        /\ Len(out.value) <= loan.term_months
        /\ Len(out.value) >= 1
        /\ out.value[Len(out.value)].SaldoPendiente = Zero

\* C2: a Mortgage with a non-positive capital, a non-positive term or a
\* negative rate is never made, so no call divides by zero and no schedule
\* is empty.
C2_InvalidParametersRejected ==
    /\ loan # None => ValidLoan(loan)
    /\ out.kind = "raise" => out.value # "ZeroDivisionError"
    /\ (out.op = "generate_amortization_schedule" /\ out.kind = "return") =>
           Len(out.value) >= 1

\* C6: generate_detailed_schedule returns one record per record of the
\* amortization schedule of its Mortgage, in the same order.
C6_DetailedFollowsAmortization ==
    (/\ out.op = "generate_detailed_schedule"
     /\ out.kind = "return"
     /\ ValidLoan(house.mortgage)) =>
        /\ Len(out.value) =
               Len(generate_amortization_schedule(house.mortgage).value)
        /\ \A i \in 1..Len(out.value) :
               out.value[i].Mes =
                   generate_amortization_schedule(house.mortgage).value[i].Mes

\* C7: in an amortization schedule no record but the last has a (rounded)
\* Saldo Pendiente of 0.
C7_ZeroBalanceOnlyLast ==
    (/\ out.op = "generate_amortization_schedule"
     /\ out.kind = "return"
     /\ ValidLoan(loan)) =>
        \A i \in 1..(Len(out.value) - 1) : out.value[i].SaldoPendiente # Zero

\* C8: total_monthly_cost is the monthly payment plus a twelfth of the
\* property tax, of the home insurance and of the maintenance cost, plus the
\* community fees and the utilities as they are; it raises exactly when the
\* monthly payment does.
C8_OverlayAdditivity ==
    out.op = "total_monthly_cost" =>
        /\ out.kind = calculate_monthly_payment(house.mortgage).kind
        /\ out.kind = "return" =>
               out.value =
                   FAdd(FAdd(FAdd(FAdd(FAdd(
                       calculate_monthly_payment(house.mortgage).value,
                       FDiv(house.property_tax, FromInt(12))),
                       FDiv(house.home_insurance, FromInt(12))),
                       FDiv(house.maintenance_cost, FromInt(12))),
                       house.community_fees),
                       house.utilities)

\* A House with fees and utilities whose total monthly cost was returned.
C8_Witness ==
    /\ out.op = "total_monthly_cost"
    /\ out.kind = "return"
    /\ ValidLoan(house.mortgage)
    /\ house.community_fees # Zero
    /\ house.utilities # Zero

\* A call of calculate_required_interest has ended.
SolverEnded == out.op = "calculate_required_interest" /\ pc = "idle"

\* C3: a rate returned by calculate_required_interest gives a monthly payment
\* less than tolerance away from the target; a call that does not return a
\* rate ends in an error.
C3_ReturnedRateMeetsTolerance ==
    SolverEnded =>
        /\ out.kind \in {"return", "raise"}
        /\ out.kind = "return" =>
               FLt(FAbs(FSub(PaymentAt(args.capital, out.value, args.term_years),
                             args.max_monthly_payment)),
                   tolerance)

\* A rate returned after the bounds were narrowed at least once.
C3_Witness == SolverEnded /\ out.kind = "return" /\ iterations >= 1

\* The target is further than tolerance below the payment at rate 0 or above
\* the payment at rate 100.
Unreachable(a) ==
    \/ FLt(FAdd(a.max_monthly_payment, tolerance),
           PaymentAt(a.capital, FromInt(0), a.term_years))
    \/ FGt(FSub(a.max_monthly_payment, tolerance),
           PaymentAt(a.capital, FromInt(100), a.term_years))

\* C4: for a target that no rate of [0, 100] reaches, the call runs
\* max_iterations iterations and raises ValueError, and ends in no other way.
C4_UnreachableTargetRaisesValueError ==
    (SolverEnded /\ Unreachable(args)) =>
        /\ out.kind = "raise"
        /\ out.value = "ValueError"
        /\ iterations = max_iterations

\* C5: given as its target the payment of a rate of RoundTripRates, the call
\* returns a rate less than 1e-4 away from that rate.
C5_RoundTrip ==
    \A rate0 \in RoundTripRates :
        (/\ SolverEnded
         /\ args.max_monthly_payment =
                PaymentAt(args.capital, rate0, args.term_years)) =>
            /\ out.kind = "return"
            /\ FLt(FAbs(FSub(out.value, rate0)), FromRat(1, 10000))

\* C9: once made, a Mortgage keeps its five fields through every call, with
\* term_months = term_years * 12 and monthly_interest = interest_rate / 1200.
C9_LoanImmutable ==
    /\ [][loan # None => loan' = loan]_vars
    /\ [](loan # None =>
            /\ loan.term_months = loan.term_years * 12
            /\ loan.monthly_interest = FDiv(loan.interest_rate, FromInt(1200)))

\* The Mortgage after a schedule was generated from it: it was added to the
\* simulator and the solver has run before.
C9_Witness ==
    /\ out.op = "generate_amortization_schedule"
    /\ out.kind = "return"
    /\ first # None
    /\ Len(mortgages) >= 1

\* C10: a call of calculate_required_interest leaves self.mortgages and
\* self.houses as they are, and ends as the call with the same arguments
\* ended when the lists were empty.
C10_SolverStateless ==
    /\ [][(pc = "loop" \/ pc' = "loop") =>
              (mortgages' = mortgages /\ houses' = houses)]_vars
    /\ []((SolverEnded /\ first # None /\ args = first.args) =>
              (out.kind = first.kind /\ out.value = first.value))

\* A call that ended with objects in both lists, with the arguments of a
\* call that ended when the lists were empty.
C10_Witness ==
    /\ SolverEnded
    /\ first # None
    /\ args = first.args
    /\ Len(mortgages) >= 1
    /\ Len(houses) >= 1

\* C11: add_mortgage appends the Mortgage to self.mortgages and leaves
\* self.houses as it is, add_house appends the House to self.houses and
\* leaves self.mortgages as it is, and every other step leaves both lists
\* as they are: each list is the added objects in call order.
C11_ListsAppendOnly ==
    [][/\ (pc = "idle" /\ out'.op = "add_mortgage") =>
              (mortgages' = Append(mortgages, loan) /\ houses' = houses)
       /\ (pc = "idle" /\ out'.op = "add_house") =>
              (houses' = Append(houses, house) /\ mortgages' = mortgages)
       /\ (pc # "idle" \/ out'.op \notin {"add_mortgage", "add_house"}) =>
              (mortgages' = mortgages /\ houses' = houses)]_vars

\* Two different Mortgages and two different Houses added, and the list of
\* Mortgages compared after that.
C11_Witness ==
    /\ Len(mortgages) = 2
    /\ mortgages[1] # mortgages[2]
    /\ Len(houses) = 2
    /\ houses[1] # houses[2]
    /\ out.op = "compare_mortgages"

\* calculate_required_interest run alone from the given bounds and count.
RECURSIVE SolveAlone(_, _, _, _)

SolveAlone(input, lower_bound0, upper_bound0, iterations0) ==
    IF SolveStepped([pc |-> "solve", op |-> "calculate_required_interest", input |-> input, lower_bound |-> lower_bound0, upper_bound |-> upper_bound0, iterations |-> iterations0]).pc = "done"
    THEN SolveStepped([pc |-> "solve", op |-> "calculate_required_interest", input |-> input, lower_bound |-> lower_bound0, upper_bound |-> upper_bound0, iterations |-> iterations0]).result
    ELSE SolveAlone(input,
             SolveStepped([pc |-> "solve", op |-> "calculate_required_interest", input |-> input, lower_bound |-> lower_bound0, upper_bound |-> upper_bound0, iterations |-> iterations0]).lower_bound,
             SolveStepped([pc |-> "solve", op |-> "calculate_required_interest", input |-> input, lower_bound |-> lower_bound0, upper_bound |-> upper_bound0, iterations |-> iterations0]).upper_bound,
             iterations0 + 1)

\* The result of the call of a frame when no other call runs.
Alone(f) ==
    IF f.op = "generate_amortization_schedule" THEN generate_amortization_schedule(loan)
    ELSE IF f.op = "generate_detailed_schedule" THEN generate_detailed_schedule(house)
    ELSE SolveAlone(f.input, FromInt(0), FromInt(100), 0)

\* C12: whatever the interleaving of the callers' steps, a call that has
\* ended has the result it has when it runs alone.
C12_InterleavedCallsAsAlone ==
    \A c \in Callers : frames[c].pc = "done" => frames[c].result = Alone(frames[c])

\* Every caller's call has ended; one was generate_amortization_schedule
\* and another was a schedule call on the same Mortgage.
C12_Witness ==
    /\ \A c \in Callers : frames[c].pc = "done"
    /\ \E c, d \in Callers :
           /\ c # d
           /\ frames[c].op = "generate_amortization_schedule"
           /\ frames[d].op \in {"generate_amortization_schedule", "generate_detailed_schedule"}
           /\ frames[c].result.kind = "return"
           /\ Len(frames[c].result.value) > 1

\* C13: for a Mortgage with interest_rate = 0 (and the capital and term the
\* documentation allows) calculate_monthly_payment returns exactly
\* capital / term_months and raises nothing.
C13_ZeroRatePayment ==
    (/\ out.op = "calculate_monthly_payment"
     /\ ValidLoan(loan)
     /\ loan.interest_rate = Zero) =>
        /\ out.kind = "return"
        /\ out.value = FDiv(loan.capital, FromInt(loan.term_months))

\* The monthly payment of a Mortgage with rate 0 was returned.
C13_Witness ==
    /\ out.op = "calculate_monthly_payment"
    /\ ValidLoan(loan)
    /\ loan.interest_rate = Zero
    /\ out.kind = "return"
    /\ out.value # Zero

\* Rates of [0, 100] that the monthly payment of the Mortgage is compared at.
ComparedRates == {FromRat(1, 4), FromInt(3), FromInt(50)}

\* The outcome of calculate_monthly_payment for the capital and term of l at
\* the rate given.
PaymentAtRate(l, rate0) ==
    calculate_monthly_payment(Mortgage(l.capital, rate0, l.term_years))

\* C14: for a Mortgage with a rate of [0, 100], the monthly payment at each
\* higher rate of ComparedRates is returned and is greater, and at each
\* lower rate it is returned and is less.
C14_PaymentIncreasesWithRate ==
    (/\ out.op = "calculate_monthly_payment"
     /\ ValidLoan(loan)
     /\ ~FGt(loan.interest_rate, FromInt(100))) =>
        /\ out.kind = "return"
        /\ \A rate0 \in ComparedRates :
               /\ PaymentAtRate(loan, rate0).kind = "return"
               /\ FLt(loan.interest_rate, rate0) =>
                      FLt(out.value, PaymentAtRate(loan, rate0).value)
               /\ FLt(rate0, loan.interest_rate) =>
                      FLt(PaymentAtRate(loan, rate0).value, out.value)

\* Binary digits after the point that hold every amount of a schedule.
FixedBits == Precision + 6

\* The float x counted in units of 2^-FixedBits.
Fixed(x) == x[1] * 2^(x[2] + FixedBits)

\* The sum of Capital Amortizado over the records from the i-th on, in units
\* of 2^-FixedBits.
RECURSIVE SumPrincipal(_, _)

SumPrincipal(schedule, i) ==
    IF i > Len(schedule) THEN 0
    ELSE Fixed(schedule[i].CapitalAmortizado) + SumPrincipal(schedule, i + 1)

\* C15: for a Mortgage the documentation allows (here with a rate of at most
\* 100), the sum of Capital Amortizado over the schedule differs from the
\* capital by at most 0.01 per record.
C15_PrincipalConservation ==
    (/\ out.op = "generate_amortization_schedule"
     /\ out.kind = "return"
     /\ ValidLoan(loan)
     /\ ~FGt(loan.interest_rate, FromInt(100))) =>
        Abs(SumPrincipal(out.value, 1) - Fixed(loan.capital))
            <= (Len(out.value) * 2^FixedBits) \div 100

C17_ScheduleRunsFullTerm ==
    (out.op = "generate_amortization_schedule" /\ ValidLoan(loan)) =>
        /\ out.kind = "return"
        /\ Len(out.value) = loan.term_months
        /\ \A i \in 1..Len(out.value) : out.value[i].Mes = i
        /\ out.value[loan.term_months].SaldoPendiente = Zero

\* The target lies between the payments at rate 0 and at rate 100.
Bracketed(a) ==
    /\ FLt(PaymentAt(a.capital, FromInt(0), a.term_years), a.max_monthly_payment)
    /\ PaymentAtRate(a, FromInt(100)).kind = "return"
    /\ FLt(a.max_monthly_payment, PaymentAtRate(a, FromInt(100)).value)

\* C18: at every pass through the loop of calculate_required_interest
\* 0 <= lower_bound < mid_rate < upper_bound <= 100, and for a target
\* between the payments at rate 0 and at rate 100 the payment at lower_bound
\* is at most the target and the payment at upper_bound at least the target.
C18_BracketInvariant ==
    (pc = "loop" /\ iterations < max_iterations) =>
        /\ ~FLt(lower_bound, FromInt(0))
        /\ FLt(lower_bound, mid_rate)
        /\ FLt(mid_rate, upper_bound)
        /\ ~FGt(upper_bound, FromInt(100))
        /\ Bracketed(args) =>
               /\ PaymentAtRate(args, lower_bound).kind = "return"
               /\ PaymentAtRate(args, upper_bound).kind = "return"
               /\ ~FGt(PaymentAtRate(args, lower_bound).value, args.max_monthly_payment)
               /\ ~FLt(PaymentAtRate(args, upper_bound).value, args.max_monthly_payment)

\* The running balance of generate_amortization_schedule after k passes
\* through its loop.
RECURSIVE RunningBalance(_, _, _)

RunningBalance(self, monthly_payment, k) ==
    IF k = 0 THEN self.capital
    ELSE BalanceAfter(self, monthly_payment, RunningBalance(self, monthly_payment, k - 1))

\* C19: in the amortization schedule of a Mortgage the documentation allows
\* every Saldo Pendiente is at least 0 and at most the one of the record
\* before (the first at most the capital), every record has the same Cuota,
\* and Interes and Capital Amortizado of each record come from the running
\* balance as it was, not from the rounded Saldo Pendiente.
C19_BalancesDecrease ==
    (/\ out.op = "generate_amortization_schedule"
     /\ out.kind = "return"
     /\ ValidLoan(loan)) =>
        \A i \in 1..Len(out.value) :
            /\ out.value[i].SaldoPendiente[1] >= 0
            /\ ~FGt(out.value[i].SaldoPendiente,
                    IF i = 1 THEN loan.capital ELSE out.value[i - 1].SaldoPendiente)
            /\ out.value[i].Cuota = out.value[1].Cuota
            /\ out.value[i].Interes =
                   Round2(FMul(RunningBalance(loan, calculate_monthly_payment(loan).value, i - 1),
                               loan.monthly_interest))
            /\ out.value[i].CapitalAmortizado =
                   Round2(FSub(calculate_monthly_payment(loan).value,
                               FMul(RunningBalance(loan, calculate_monthly_payment(loan).value, i - 1),
                                    loan.monthly_interest)))
====
